---- MODULE Spec2Model ----
(***************************************************************************)
(* Model of the document retrieval core of merci2/mistral11:               *)
(* backend/src/services/vectorStoreService.ts (class VectorStoreService,   *)
(* first revision in the file, lines 1-406) and the upload, delete and     *)
(* chat routes of backend/src/server.ts that drive it; and of the          *)
(* ChatService of backend/src/services/chatService.ts.                     *)
(*                                                                         *)
(* Strings are sequences of character codes (ASCII).  A number[] vector is *)
(* the record [dim |-> its length, vals |-> its leading entries]; entries  *)
(* past Len(vals) are 0.  Vector entries are integers in units of 1/100    *)
(* (cosine similarity does not depend on the unit).                        *)
(***************************************************************************)
EXTENDS Integers, Sequences, FiniteSets, TLC

(***************************************************************************)
(* Bounds of the model.                                                    *)
(***************************************************************************)
\* number of requests (upload, delete, search) the server receives in a run
MaxCalls == 2
\* the clock (Date.now()) runs from 1 to MaxClock
MaxClock == 2

(***************************************************************************)
(* The state of the server.                                                *)
(***************************************************************************)
VARIABLES
  mistralApiKey,  \* whether MISTRAL_API_KEY is set (read once, in the constructor)
  documents,      \* this.documents: the entries of the Map, in insertion order
  chunks,         \* this.chunks
  clock,          \* Date.now()
  files,          \* the paths of the files in the uploads directory
  started,        \* number of requests received so far; request c is the c-th
  calls,          \* the requests in flight: where each is suspended, and its locals
  ev,             \* what the last step let the callers see: the getEmbedding
                  \* calls that returned in it and the request that ended in it
  fb,             \* history: for each text, how many times simpleEmbedding was
                  \* called on it and the vectors it has returned
  probe,          \* a call of a pure function on its own: its arguments and
                  \* its result
  chat            \* the ChatService: the history of the session, the chat calls
                  \* in flight and what the last one to end returned

vars ==
  <<mistralApiKey, documents, chunks, clock, files, started, calls, ev, fb, probe, chat>>

(***************************************************************************)
(* Characters and strings.                                                 *)
(***************************************************************************)
\* character codes by name
Ch == [sp |-> 32, nl |-> 10, dot |-> 46, bang |-> 33, qm |-> 63, us |-> 95,
       dash |-> 45, lbr |-> 91, rbr |-> 93, colon |-> 58, zero |-> 48]

\* \s of a JavaScript regular expression, on ASCII input
isSpace(c) == c \in {9, 10, 11, 12, 13, 32}
\* [.!?]
isPunct(c) == c \in {Ch.dot, Ch.bang, Ch.qm}
\* [a-zA-Z0-9]
isAlnum(c) == (c \in 48..57) \/ (c \in 65..90) \/ (c \in 97..122)
\* String.prototype.toLowerCase, on ASCII input
lowerChar(c) == IF c \in 65..90 THEN c + 32 ELSE c
toLowerCase(s) == [i \in 1..Len(s) |-> lowerChar(s[i])]

\* n copies of character c
Rep(c, n) == [i \in 1..n |-> c]

\* the members of a finite set of integers, in increasing order
SortedSeq(S) ==
  [k \in 1..Cardinality(S) |-> CHOOSE x \in S : Cardinality({y \in S : y < x}) = k - 1]

\* String.prototype.trim
trim(s) ==
  LET n == Len(s)
  IN IF \A i \in 1..n : isSpace(s[i]) THEN <<>>
     ELSE LET lo == CHOOSE i \in 1..n : ~isSpace(s[i]) /\ \A j \in 1..(i-1) : isSpace(s[j])
              hi == CHOOSE i \in 1..n : ~isSpace(s[i]) /\ \A j \in (i+1)..n : isSpace(s[j])
          IN SubSeq(s, lo, hi)

\* Array.prototype.join
join(parts, sep) ==
  LET joined[k \in 1..Len(parts)] ==
        IF k = 1 THEN parts[1] ELSE joined[k - 1] \o sep \o parts[k]
  IN IF Len(parts) = 0 THEN <<>> ELSE joined[Len(parts)]

\* String.prototype.split(/\s+/): the pieces between the maximal runs of
\* white space; a leading or trailing run leaves an empty piece, and the
\* empty string gives one empty piece
splitWords(s) ==
  LET n == Len(s)
      runStarts == SortedSeq({i \in 1..n : isSpace(s[i]) /\ (i = 1 \/ ~isSpace(s[i-1]))})
      runEnds   == SortedSeq({i \in 1..n : isSpace(s[i]) /\ (i = n \/ ~isSpace(s[i+1]))})
      k == Len(runStarts)
  IN [j \in 1..(k+1) |->
        SubSeq(s, IF j = 1 THEN 1 ELSE runEnds[j-1] + 1,
                  IF j = k + 1 THEN n ELSE runStarts[j] - 1)]

\* decimal digits of a natural number (template literal `${n}`)
\* String.prototype.includes
includes(text, word) ==
  \E i \in 1..(Len(text) - Len(word) + 1) : SubSeq(text, i, i + Len(word) - 1) = word

RECURSIVE decimal(_)
decimal(n) ==
  IF n < 10 THEN <<Ch.zero + n>>
  ELSE decimal(n \div 10) \o <<Ch.zero + (n % 10)>>

(***************************************************************************)
(* simpleEmbedding: the fallback vector.                                   *)
(***************************************************************************)
\* the dimension of the fallback vector, new Array(1024)
Dim == 1024

\* One round of the rolling hash on a 32-bit value held as two 16-bit
\* halves <<hi, lo>> (two's complement):
\*   hash = ((hash << 5) - hash) + charCode;  hash = hash & hash
\* that is hash * 31 + charCode wrapped to 32 bits.
hashStep(h, c) ==
  LET lo == h[2] * 31 + c
      hi == h[1] * 31 + (lo \div 65536)
  IN <<hi % 65536, lo % 65536>>

\* the rounds of the for loop (lines 87-90) for word[lo..hi], from hash h
hashRounds(h, word, lo, hi) ==
  LET after[k \in (lo - 1)..hi] ==
        IF k = lo - 1 THEN h ELSE hashStep(after[k - 1], word[k])
  IN after[hi]

\* the hash of a word, starting from 0
wordHash(word) == hashRounds(<<0, 0>>, word, 1, Len(word))

\* hash % 100 without Math.abs: negative for a negative hash
signedMod100(h) ==
  IF h[1] < 32768
  THEN ((h[1] % 100) * 36 + h[2]) % 100
  ELSE 0 - ((((65535 - h[1]) % 100) * 36 + (65536 - h[2])) % 100)

\* Math.abs(hash % 100), in hundredths: the halves are read as a signed
\* 32-bit integer, whose absolute value is taken modulo 100
absMod100(h) ==
  IF h[1] < 32768
  THEN ((h[1] % 100) * 36 + h[2]) % 100
  ELSE (((65535 - h[1]) % 100) * 36 + (65536 - h[2])) % 100

\* a fallback that keeps a counter across calls: its vector depends on how
\* many requests came before
simpleEmbeddingCounting(text) == [dim |-> Dim, vals |-> <<started>>]

simpleEmbedding(text) ==
  LET words == splitWords(toLowerCase(text))
      n == IF Len(words) < Dim THEN Len(words) ELSE Dim
  IN [dim |-> Dim, vals |-> [i \in 1..n |-> absMod100(wordHash(words[i]))]]

(***************************************************************************)
(* cosineSimilarity.  A score is the real number                           *)
(*   num / (sqrt(n1) * sqrt(n2))                                           *)
(* held exactly as [num, n1, n2] with n1, n2 > 0; 0 is [num |-> 0, ...].    *)
(***************************************************************************)
ZeroScore == [num |-> 0, n1 |-> 1, n2 |-> 1]

RECURSIVE sumTo(_, _)
\* f[1] + ... + f[n]
sumTo(f, n) == IF n = 0 THEN 0 ELSE f[n] + sumTo(f, n - 1)

\* entry i of a vector (0 past its stored entries)
at(v, i) == IF i <= Len(v.vals) THEN v.vals[i] ELSE 0

\* a cosine without the guard of line 100: it runs over the entries of the
\* longer vector
cosineUnguarded(vec1, vec2) ==
  LET k == IF Len(vec1.vals) > Len(vec2.vals) THEN Len(vec1.vals) ELSE Len(vec2.vals)
      dotProduct == sumTo([i \in 1..k |-> at(vec1, i) * at(vec2, i)], k)
      norm1 == sumTo([i \in 1..k |-> at(vec1, i) * at(vec1, i)], k)
      norm2 == sumTo([i \in 1..k |-> at(vec2, i) * at(vec2, i)], k)
  IN IF norm1 = 0 \/ norm2 = 0 THEN ZeroScore
     ELSE [num |-> dotProduct, n1 |-> norm1, n2 |-> norm2]

\* a cosine without the test of line 112: the norms go into the quotient as
\* they are
cosineUnchecked(vec1, vec2) ==
  IF vec1.dim # vec2.dim \/ vec1.dim = 0 THEN ZeroScore
  ELSE LET k == IF Len(vec1.vals) > Len(vec2.vals) THEN Len(vec1.vals) ELSE Len(vec2.vals)
       IN [num |-> sumTo([i \in 1..k |-> at(vec1, i) * at(vec2, i)], k),
           n1 |-> sumTo([i \in 1..k |-> at(vec1, i) * at(vec1, i)], k),
           n2 |-> sumTo([i \in 1..k |-> at(vec2, i) * at(vec2, i)], k)]

cosineSimilarity(vec1, vec2) ==
  IF vec1.dim # vec2.dim \/ vec1.dim = 0 THEN ZeroScore
  ELSE LET k == IF Len(vec1.vals) > Len(vec2.vals) THEN Len(vec1.vals) ELSE Len(vec2.vals)
           dotProduct == sumTo([i \in 1..k |-> at(vec1, i) * at(vec2, i)], k)
           norm1 == sumTo([i \in 1..k |-> at(vec1, i) * at(vec1, i)], k)
           norm2 == sumTo([i \in 1..k |-> at(vec2, i) * at(vec2, i)], k)
       IN IF norm1 = 0 \/ norm2 = 0 THEN ZeroScore
          ELSE [num |-> dotProduct, n1 |-> norm1, n2 |-> norm2]

\* what a score is when the arithmetic has met undefined: NaN
NaNScore == [num |-> 0, n1 |-> 0, n2 |-> 0]

\* cosineSimilarity of the second revision of the service in the source file
\* (lines 505-517): the loop runs over the indices of vec1 with no test of
\* the lengths, and the quotient is
\*   dotProduct / (Math.sqrt(norm1) * Math.sqrt(norm2) || 1)
\* An index past the end of vec2 reads undefined, and every sum it enters is
\* NaN; a product of norms that is 0 is replaced by 1.
cosineSimilarity2(vec1, vec2) ==
  IF vec1.dim > vec2.dim THEN NaNScore
  ELSE LET longer == IF Len(vec1.vals) > Len(vec2.vals) THEN Len(vec1.vals)
                     ELSE Len(vec2.vals)
           k == IF vec1.dim < longer THEN vec1.dim ELSE longer
           dotProduct == sumTo([i \in 1..k |-> at(vec1, i) * at(vec2, i)], k)
           norm1 == sumTo([i \in 1..k |-> at(vec1, i) * at(vec1, i)], k)
           norm2 == sumTo([i \in 1..k |-> at(vec2, i) * at(vec2, i)], k)
       IN IF norm1 = 0 \/ norm2 = 0 THEN [num |-> dotProduct, n1 |-> 1, n2 |-> 1]
          ELSE [num |-> dotProduct, n1 |-> norm1, n2 |-> norm2]

\* comparison of the fractions p/q and r/s (p, r >= 0; q, s > 0) by their
\* continued fractions: -1, 0 or 1
RECURSIVE fracCmp(_, _, _, _)
fracCmp(p, q, r, s) ==
  LET a == p \div q
      b == r \div s
      p2 == p % q
      r2 == r % s
  IN IF a < b THEN -1
     ELSE IF a > b THEN 1
     ELSE IF p2 = 0 /\ r2 = 0 THEN 0
     ELSE IF p2 = 0 THEN -1
     ELSE IF r2 = 0 THEN 1
     ELSE fracCmp(s, r2, q, p2)

sign(n) == IF n > 0 THEN 1 ELSE IF n < 0 THEN -1 ELSE 0

\* comparison of sa * sqrt(pa/qa) and sb * sqrt(pb/qb), sa, sb signs
signedCmp(sa, pa, qa, sb, pb, qb) ==
  IF sa # sb THEN (IF sa < sb THEN -1 ELSE 1)
  ELSE IF sa = 0 THEN 0
  ELSE sa * fracCmp(pa, qa, pb, qb)

\* a - b as a sign: the comparison of two scores
scoreCmp(a, b) ==
  signedCmp(sign(a.num), a.num * a.num, a.n1 * a.n2,
            sign(b.num), b.num * b.num, b.n1 * b.n2)

\* score > 0.3
aboveMinimum(a) ==
  signedCmp(sign(a.num), a.num * a.num, a.n1 * a.n2, 1, 9, 100) = 1

\* score > m * 0.5
aboveHalfOf(a, m) ==
  signedCmp(sign(a.num), a.num * a.num, a.n1 * a.n2,
            sign(m.num), m.num * m.num, 4 * m.n1 * m.n2) = 1


(***************************************************************************)
(* splitText: the chunker.                                                 *)
(***************************************************************************)
\* text.replace(/\s+/g, ' '): every maximal run of white space becomes one
\* space
collapseSpaces(text) ==
  LET marked == [i \in 1..Len(text) |->
                   IF ~isSpace(text[i]) THEN text[i]
                   ELSE IF i > 1 /\ isSpace(text[i-1]) THEN -1
                   ELSE Ch.sp]
      kept(c) == c # -1
  IN SelectSeq(marked, kept)

\* s.match(/[^.!?]+[.!?]+/g) || [s]: each maximal run of non-terminators
\* that a terminator follows, with the maximal run of terminators after it;
\* text after the last terminator belongs to no match
matchSentences(s) ==
  LET n == Len(s)
      ends == SortedSeq({i \in 1..n : isPunct(s[i]) /\ (i = n \/ ~isPunct(s[i+1]))})
      from(j) == IF j = 1 THEN 1 ELSE ends[j-1] + 1
      all == [j \in 1..Len(ends) |-> SubSeq(s, from(j), ends[j])]
      matched(m) == ~isPunct(m[1])
      found == SelectSeq(all, matched)
  IN IF found = <<>> THEN <<s>> ELSE found

\* lastSentences.slice(-2)
lastTwo(q) == IF Len(q) <= 2 THEN q ELSE SubSeq(q, Len(q) - 1, Len(q))

\* a round that starts every new chunk with the sentence alone, whatever
\* the overlap
splitStepFresh(st, sentence, chunkSize, overlap) ==
  LET trimmedSentence == trim(sentence)
  IN IF Len(st.currentChunk \o <<Ch.sp>> \o trimmedSentence) > chunkSize
        /\ Len(st.currentChunk) > 0
     THEN [chunks |-> Append(st.chunks, trim(st.currentChunk)),
           currentChunk |-> trimmedSentence,
           lastSentences |-> <<trimmedSentence>>]
     ELSE LET pushed == Append(st.lastSentences, trimmedSentence)
          IN [chunks |-> st.chunks,
              currentChunk |->
                IF st.currentChunk # <<>>
                THEN st.currentChunk \o <<Ch.sp>> \o trimmedSentence
                ELSE trimmedSentence,
              lastSentences |-> IF Len(pushed) > 3 THEN Tail(pushed) ELSE pushed]

\* one round of the for loop of splitText on the loop state
\* [chunks, currentChunk, lastSentences]
splitStep(st, sentence, chunkSize, overlap) ==
  LET trimmedSentence == trim(sentence)
  IN IF Len(st.currentChunk \o <<Ch.sp>> \o trimmedSentence) > chunkSize
        /\ Len(st.currentChunk) > 0
     THEN [chunks |-> Append(st.chunks, trim(st.currentChunk)),
           currentChunk |->
             IF overlap > 0 /\ Len(st.lastSentences) > 0
             THEN join(lastTwo(st.lastSentences), <<Ch.sp>>) \o <<Ch.sp>> \o trimmedSentence
             ELSE trimmedSentence,
           lastSentences |-> <<trimmedSentence>>]
     ELSE LET pushed == Append(st.lastSentences, trimmedSentence)
          IN [chunks |-> st.chunks,
              currentChunk |->
                IF st.currentChunk # <<>>
                THEN st.currentChunk \o <<Ch.sp>> \o trimmedSentence
                ELSE trimmedSentence,
              lastSentences |-> IF Len(pushed) > 3 THEN Tail(pushed) ELSE pushed]

splitText(text, chunkSize, overlap) ==
  LET cleanedText == trim(collapseSpaces(text))
      sentences == matchSentences(cleanedText)
      loop[k \in 0..Len(sentences)] ==
        IF k = 0 THEN [chunks |-> <<>>, currentChunk |-> <<>>, lastSentences |-> <<>>]
        ELSE splitStep(loop[k - 1], sentences[k], chunkSize, overlap)
      end == loop[Len(sentences)]
  IN IF trim(end.currentChunk) # <<>>
     THEN Append(end.chunks, trim(end.currentChunk))
     ELSE end.chunks


(***************************************************************************)
(* String constants of the source and the inputs of the model.             *)
(***************************************************************************)
\* ".pdf"
sPdf == <<46, 112, 100, 102>>
\* "_chunk_"
sChunk == <<95, 99, 104, 117, 110, 107, 95>>
\* "[Source: "
sSource == <<91, 83, 111, 117, 114, 99, 101, 58, 32>>
\* "]\n"
sClose == <<93, 10>>
\* "\n\n---\n\n"
sSeparator == <<10, 10, 45, 45, 45, 10, 10>>

\* splitText's chunkSize and overlap as the ingestion paths pass them, and
\* the length below which the PDF path skips a chunk
ChunkSize == 1000
Overlap == 100
MinChunkLength == 50

\* original file names of the uploads: "a.md", "a.pdf"
nMd == <<97, 46, 109, 100>>
nPdf == <<97, 46, 112, 100, 102>>
Names == {nMd, nPdf}
\* "a].md", a name multer accepts for its extension (server.ts, lines 55-63)
nBracket == <<97, Ch.rbr, 46, 109, 100>>

\* The texts of the model: blank; "Hi"; "a B"; two sentences of 32 words
\* each, 522 and 518 characters long, so more than one chunk of 1000
\* characters; and the first of the two sentences.  The first words of the
\* sentences are "a" and "B"; the fallback vector has 0 at every other word.
tBlank == <<32>>
tHi == <<72, 105>>
tAB == <<97, 32, 66>>
zeroWords == [i \in 1..510 |-> IF i % 17 = 0 THEN Ch.sp ELSE 117]
sOne == <<97, Ch.sp>> \o zeroWords \o Rep(98, 9) \o <<Ch.dot>>
sTwo == <<66, Ch.sp>> \o zeroWords \o Rep(110, 5) \o <<Ch.dot>>
tTwo == sOne \o <<Ch.sp>> \o sTwo

\* a text that holds the tag of a block: "[Source: x]"
tSrc == sSource \o <<120, Ch.rbr>>

\* The state holds a text as its place in this table; Text[h] is its
\* characters.  No text is in the table twice.
Text == <<tBlank, tHi, tAB, tTwo, sOne, tSrc>>
TextIds == 1..Len(Text)
textId(t) == CHOOSE h \in TextIds : Text[h] = t
hBlank == textId(tBlank)
hHi == textId(tHi)
hAB == textId(tAB)
hTwo == textId(tTwo)
hSrc == textId(tSrc)

\* The values the actions need of a text, each computed once: the chunks of
\* a file content, splitText(content, 1000, 100) (line 179; line 240 by the
\* defaults of line 117); the emptiness test of line 172; the length (line
\* 189); the fallback vector (line 80)
textChunksOf == [h \in TextIds |-> splitText(Text[h], ChunkSize, Overlap)]
textChunkIds ==
  [h \in TextIds |-> [k \in 1..Len(textChunksOf[h]) |-> textId(textChunksOf[h][k])]]
isBlankOf == [h \in TextIds |-> trim(Text[h]) = <<>>]
lengthOf == [h \in TextIds |-> Len(Text[h])]
simpleEmbeddingOf == [h \in TextIds |-> simpleEmbedding(Text[h])]

\* what the requests of the model carry: the contents of the uploaded files,
\* the queries and the topK arguments of searchSimilar (5 is the default)
Contents == {hBlank, hAB, hTwo}
Queries == {hHi, hAB}
TopKs == {0, 1, 2, 5}

\* a document id no upload produces: "0"
UnknownId == <<48>>

\* embedding vectors the provider may answer with: three of the dimension of
\* mistral-embed, 1024 (entries after the ones written are 0), and one of
\* dimension 2
vOne == [dim |-> Dim, vals |-> <<1>>]
ProviderVectors ==
  {vOne,
   [dim |-> Dim, vals |-> <<1, 2>>],
   [dim |-> Dim, vals |-> <<-1>>],
   [dim |-> 2, vals |-> <<1, 2>>]}

\* What the embedding request can come to:
\*   network   fetch rejects
\*   status    the response is not ok
\*   badjson   response.json() rejects
\*   null      the body is null
\*   nodata    data.data is not an array
\*   empty     data.data is []
\*   nullfirst data.data[0] is null
\*   noemb     data.data[0].embedding is not an array
\*   ok        data.data[0].embedding is the vector vec
FailureKinds ==
  {"network", "status", "badjson", "null", "nodata", "empty", "nullfirst", "noemb"}
NoVector == [dim |-> 0, vals |-> <<>>]
Responses ==
  [kind : FailureKinds, vec : {NoVector}] \cup [kind : {"ok"}, vec : ProviderVectors]
\* the responses to the embedding requests of an ingestion: every failure,
\* and one vector
UploadResponses == {resp \in Responses : resp.kind = "ok" => resp.vec = vOne}

(***************************************************************************)
(* getEmbedding.  A call ends as [tag |-> "return", val |-> vector] or as  *)
(* [tag |-> "throw", val |-> NoVector].                                    *)
(***************************************************************************)
Return(v) == [tag |-> "return", val |-> v]
Throw == [tag |-> "throw", val |-> NoVector]

\* the try block, lines 40-72, given the provider's response
getEmbeddingTry(text, resp) ==
  IF resp.kind = "network" THEN Throw
  ELSE IF resp.kind = "status" THEN Throw
  ELSE IF resp.kind = "badjson" THEN Throw
  ELSE IF resp.kind \in {"null", "nodata", "empty"} THEN Return(simpleEmbeddingOf[text])
  ELSE IF resp.kind = "nullfirst" THEN Throw
  ELSE IF resp.kind = "noemb" THEN Return(simpleEmbeddingOf[text])
  ELSE Return(resp.vec)

\* a catch block that rethrows
getEmbeddingRethrow(text) == Throw

\* the catch block, lines 73-76
getEmbeddingCatch(text) == Return(simpleEmbeddingOf[text])

\* getEmbedding with an API key configured
getEmbedding(text, resp) ==
  LET r == getEmbeddingTry(text, resp)
  IN IF r.tag = "throw" THEN getEmbeddingCatch(text) ELSE r

\* getEmbedding without an API key, lines 36-38
getEmbeddingNoKey(text) == Return(simpleEmbeddingOf[text])

(***************************************************************************)
(* Paths and identifiers.                                                  *)
(***************************************************************************)
\* multer's filename: Date.now() + '-' + file.originalname
uploadPath(now, originalname) == decimal(now) \o <<Ch.dash>> \o originalname

\* path.extname of an upload path: from the last '.' of the name on
extname(filePath) ==
  LET dots == {i \in 1..Len(filePath) : filePath[i] = Ch.dot}
  IN IF dots = {} THEN <<>>
     ELSE SubSeq(filePath, CHOOSE i \in dots : \A j \in dots : j <= i, Len(filePath))

\* filename.replace(/[^a-zA-Z0-9]/g, '_')
sanitize(filename) ==
  [i \in 1..Len(filename) |-> IF isAlnum(filename[i]) THEN filename[i] ELSE Ch.us]

generateDocId(filename, now) == decimal(now) \o <<Ch.us>> \o sanitize(filename)

\* `${originalName}_chunk_${i}_${Date.now()}`
pdfChunkId(originalName, i, now) ==
  originalName \o sChunk \o decimal(i) \o <<Ch.us>> \o decimal(now)

\* `${originalName}_${i}_${Date.now()}`
chunkId(originalName, i, now) ==
  originalName \o <<Ch.us>> \o decimal(i) \o <<Ch.us>> \o decimal(now)


(***************************************************************************)
(* Requests, events and the initial state.                                 *)
(***************************************************************************)
CallIds == 1..MaxCalls

Idle == [pc |-> "idle", op |-> "none", name |-> <<>>, path |-> <<>>, pdf |-> FALSE,
         textChunks |-> <<>>, i |-> 0, uploadDate |-> 0, query |-> <<>>, topK |-> 0,
         tries |-> 0, registered |-> FALSE, seen |-> 0]

NoEvent == [kind |-> "none", call |-> 0, op |-> "none", outcome |-> "none",
            arg |-> <<>>, name |-> <<>>, pdf |-> FALSE, tries |-> 0, embs |-> <<>>,
            topK |-> 0, rendered |-> <<>>, removed |-> 0, registered |-> FALSE,
            empty |-> FALSE, seen |-> 0, segs |-> {}]

NoProbe == [text |-> <<>>, chunkSize |-> 0, overlap |-> 0, out |-> <<>>, done |-> FALSE]

\* no chat call yet; `last` is the reply of the chat call that ended in the
\* last step
NoReply == [call |-> 0, response |-> "none", sources |-> <<>>]
NoChat == [history |-> <<>>, pending |-> {}, started |-> 0, last |-> NoReply]

NoFallbacks == [h \in TextIds |-> [calls |-> 0, vals |-> {}]]

Init ==
  /\ mistralApiKey \in BOOLEAN
  /\ documents = <<>>
  /\ chunks = <<>>
  /\ clock = 1
  /\ files = {}
  /\ started = 0
  /\ calls = [c \in CallIds |-> Idle]
  /\ ev = NoEvent
  /\ fb = NoFallbacks
  /\ chat = NoChat
  /\ probe = NoProbe

\* a getEmbedding call that returned: its text, what the request came to
\* ("nokey" when no request was made) and how the call ended
EmbEvent(text, cause, r) == [text |-> text, cause |-> cause, tag |-> r.tag, val |-> r.val]

\* the history with the simpleEmbedding calls of a step's getEmbedding calls
\* added: the calls that returned without a vector of the provider
fallbackResults(hist, embs) ==
  [h \in TextIds |->
     LET mine == {k \in 1..Len(embs) : /\ embs[k].text = h
                                       /\ embs[k].cause # "ok"
                                       /\ embs[k].tag = "return"}
     IN [calls |-> hist[h].calls + Cardinality(mine),
         vals |-> hist[h].vals \cup {embs[k].val : k \in mine}]]

(***************************************************************************)
(* The document Map and the store operations without suspension points.    *)
(***************************************************************************)
docIds == {documents[k].id : k \in 1..Len(documents)}

\* Map.prototype.get
docGet(id) == documents[CHOOSE k \in 1..Len(documents) : documents[k].id = id]

\* Map.prototype.set: a present key keeps its place and takes the new value
docSet(docs, id, value) ==
  LET entry == [id |-> id, name |-> value.name, uploadDate |-> value.uploadDate,
                by |-> value.by]
  IN IF \E k \in 1..Len(docs) : docs[k].id = id
     THEN [k \in 1..Len(docs) |-> IF docs[k].id = id THEN entry ELSE docs[k]]
     ELSE Append(docs, entry)

\* Map.prototype.delete
docDelete(docs, id) ==
  LET other(d) == d.id # id
  IN SelectSeq(docs, other)

\* listDocuments: the entries as {id, name, uploadDate}
listDocuments(docs) ==
  [k \in 1..Len(docs) |->
     [id |-> docs[k].id, name |-> docs[k].name, uploadDate |-> docs[k].uploadDate]]

\* a delete that drops every chunk
chunksNone(chs, name) == <<>>

\* a delete that leaves the chunks in place
chunksKept(chs, name) == chs

\* this.chunks.filter(chunk => chunk.source !== doc.name)
chunksWithout(chs, name) ==
  LET other(ch) == ch.source # name
  IN SelectSeq(chs, other)


\* getStats (lines 394-405): the counts and one entry per record of the Map,
\* with the number of chunks whose source is the record's name
getStats ==
  [totalDocuments |-> Len(documents),
   totalChunks |-> Len(chunks),
   documents |->
     [k \in 1..Len(documents) |->
        [id |-> documents[k].id, name |-> documents[k].name,
         uploadDate |-> documents[k].uploadDate,
         chunks |-> Cardinality({j \in 1..Len(chunks) :
                                   chunks[j].source = documents[k].name})]]]

(***************************************************************************)
(* searchSimilar, from the query embedding on (lines 284-315).             *)
(***************************************************************************)
\* an unstable sort: the item goes before the entries of an equal score
sortInsertFirst(acc, item) ==
  LET notLarger == {j \in 1..Len(acc) : scoreCmp(acc[j].score, item.score) <= 0}
      at0 == IF notLarger = {} THEN Len(acc) + 1
             ELSE CHOOSE j \in notLarger : \A m \in notLarger : j <= m
  IN SubSeq(acc, 1, at0 - 1) \o <<item>> \o SubSeq(acc, at0, Len(acc))

\* items.sort((a, b) => b.score - a.score): descending and stable.  acc is
\* sorted; the item goes before the first entry of a smaller score.
sortInsert(acc, item) ==
  LET smaller == {j \in 1..Len(acc) : scoreCmp(acc[j].score, item.score) < 0}
      at0 == IF smaller = {} THEN Len(acc) + 1
             ELSE CHOOSE j \in smaller : \A m \in smaller : j <= m
  IN SubSeq(acc, 1, at0 - 1) \o <<item>> \o SubSeq(acc, at0, Len(acc))

RECURSIVE sortFrom(_, _, _)
sortFrom(acc, items, k) ==
  IF k > Len(items) THEN acc ELSE sortFrom(sortInsert(acc, items[k]), items, k + 1)

sortByScore(items) == sortFrom(<<>>, items, 1)

\* items.slice(0, topK)
sliceTop(items, topK) ==
  LET n == Len(items)
      end == IF topK >= 0 THEN (IF topK < n THEN topK ELSE n)
             ELSE (IF n + topK > 0 THEN n + topK ELSE 0)
  IN SubSeq(items, 1, end)

\* `[Source: ${source}]\n${text}`
renderChunk(chunk) == sSource \o chunk.source \o sClose \o Text[chunk.text]

\* every chunk of the store has an embedding (lines 198, 252), so line 286
\* always takes the cosineSimilarity branch
scoreChunk(queryEmbedding, chunk) == cosineSimilarity(queryEmbedding, chunk.embedding)

\* a fixed threshold: item.score > 0.3
aboveFixedThreshold(score, maxScore) == aboveMinimum(score)

\* textSimilarity (lines 322-334): the fraction of the words of the query
\* that the text includes, both in lower case; as a score, matches / length
textSimilarity(query, text) ==
  LET queryWords == splitWords(toLowerCase(query))
      textLower == toLowerCase(text)
      matches == Cardinality({k \in 1..Len(queryWords) : includes(textLower, queryWords[k])})
  IN [num |-> matches, n1 |-> Len(queryWords), n2 |-> Len(queryWords)]

\* item.score > Math.max(0.3, maxScore * 0.5)
aboveThreshold(score, maxScore) == aboveMinimum(score) /\ aboveHalfOf(score, maxScore)

\* lines 284-298: the items are [index |-> place of the chunk in this.chunks,
\* score]
searchRanked(chs, queryEmbedding, topK) ==
  LET similarities == [k \in 1..Len(chs) |->
                         [index |-> k, score |-> scoreChunk(queryEmbedding, chs[k])]]
      topChunks == sliceTop(sortByScore(similarities), topK)
      maxScore == IF Len(topChunks) > 0 THEN topChunks[1].score ELSE ZeroScore
      relevant(item) == aboveThreshold(item.score, maxScore)
  IN SelectSeq(topChunks, relevant)

\* lines 304-313: the string searchSimilar returns
renderContext(chs, relevantChunks) ==
  join([k \in 1..Len(relevantChunks) |-> renderChunk(chs[relevantChunks[k].index])],
       sSeparator)


(***************************************************************************)
(* Ingestion: POST /api/admin/upload -> addDocument / processAndAddPDF.    *)
(***************************************************************************)
\* the chunk the loop body builds for textChunks[i] (i from 0); `by` and
\* `seg` are not fields of the code: they name the request that pushed the
\* chunk and the index i of its text in textChunks
newChunk(rec, c, i, embedding) ==
  [id |-> IF rec.pdf THEN pdfChunkId(rec.name, i, clock) ELSE chunkId(rec.name, i, clock),
   text |-> rec.textChunks[i + 1],
   source |-> rec.name,
   uploadDate |-> rec.uploadDate,
   embedding |-> embedding,
   by |-> c,
   seg |-> i]

\* a loop that puts each chunk at the front of this.chunks
RECURSIVE ingestLoopFront(_, _, _, _, _)
ingestLoopFront(rec, c, chs, i, embs) ==
  IF i >= Len(rec.textChunks) THEN [chunks |-> chs, i |-> i, embs |-> embs, wait |-> FALSE]
  ELSE LET chunkText == rec.textChunks[i + 1]
       IN IF rec.pdf /\ lengthOf[chunkText] < MinChunkLength
          THEN ingestLoopFront(rec, c, chs, i + 1, embs)
          ELSE IF mistralApiKey
          THEN [chunks |-> chs, i |-> i, embs |-> embs, wait |-> TRUE]
          ELSE LET r == getEmbeddingNoKey(chunkText)
               IN ingestLoopFront(rec, c, <<newChunk(rec, c, i, r.val)>> \o chs, i + 1,
                                  Append(embs, EmbEvent(chunkText, "nokey", r)))

\* The for loop (lines 185-202, 243-256) from index i up to its next
\* suspension.  With an API key every getEmbedding call suspends on fetch.
\* Without one getEmbedding returns at once and the loop runs on to its end
\* in the continuation it started in, which no other request interrupts.
RECURSIVE ingestLoop(_, _, _, _, _)
ingestLoop(rec, c, chs, i, embs) ==
  IF i >= Len(rec.textChunks) THEN [chunks |-> chs, i |-> i, embs |-> embs, wait |-> FALSE]
  ELSE LET chunkText == rec.textChunks[i + 1]
       IN IF rec.pdf /\ lengthOf[chunkText] < MinChunkLength
          THEN ingestLoop(rec, c, chs, i + 1, embs)
          ELSE IF mistralApiKey
          THEN [chunks |-> chs, i |-> i, embs |-> embs, wait |-> TRUE]
          ELSE LET r == getEmbeddingNoKey(chunkText)
               IN ingestLoop(rec, c, Append(chs, newChunk(rec, c, i, r.val)), i + 1,
                             Append(embs, EmbEvent(chunkText, "nokey", r)))

\* the request c ends: the route answers 200 (outcome "ok") or 500.  `segs`
\* is not a value of the code: the indices of textChunks that the test of
\* line 189 let through
EndUpload(c, rec, outcome, tries, embs) ==
  /\ calls' = [calls EXCEPT ![c] = Idle]
  /\ ev' = [NoEvent EXCEPT !.kind = "return", !.call = c, !.op = "upload",
                           !.outcome = outcome, !.name = rec.name, !.pdf = rec.pdf,
                           !.tries = tries, !.embs = embs,
                           !.registered = rec.registered,
                           !.segs = {i \in 0..(Len(rec.textChunks) - 1) :
                                       ~(rec.pdf /\ lengthOf[rec.textChunks[i + 1]]
                                                      < MinChunkLength)}]

\* an exception reaches the catch block: processAndAddPDF goes on to unlink
\* the file (line 219), addDocument rethrows (line 269)
FailUpload(c, rec, embs) ==
  IF rec.pdf
  THEN /\ calls' = [calls EXCEPT ![c] = [rec EXCEPT !.pc = "cleanup"]]
       /\ ev' = IF embs = <<>> THEN NoEvent
                ELSE [NoEvent EXCEPT !.kind = "step", !.call = c, !.embs = embs]
  ELSE EndUpload(c, rec, "error", rec.tries, embs)

\* run the loop on from index i with the chunks chs; after its last round
\* register the document (lines 205-209, 258-262) and suspend on fs.unlink.
\* `registered` is not a variable of the code: it records whether the set
\* added one entry to the Map and left the entries before it as they were
Ingest(c, rec, chs, i, embs) ==
  LET r == ingestLoop(rec, c, chs, i, embs)
  IN /\ chunks' = r.chunks
     /\ fb' = fallbackResults(fb, r.embs)
     /\ ev' = IF r.embs = <<>> THEN NoEvent
              ELSE [NoEvent EXCEPT !.kind = "step", !.call = c, !.embs = r.embs]
     /\ IF r.wait
        THEN /\ documents' = documents
             /\ calls' = [calls EXCEPT ![c] = [rec EXCEPT !.pc = "embed", !.i = r.i]]
        ELSE /\ documents' = docSet(documents, generateDocId(rec.name, clock),
                                    [name |-> rec.name, uploadDate |-> clock, by |-> c])
             /\ calls' = [calls EXCEPT ![c] =
                  [rec EXCEPT !.pc = "unlink", !.i = r.i,
                              !.registered = generateDocId(rec.name, clock) \notin docIds]]

\* multer stores the file, the route calls addDocument, which suspends on
\* fs.readFile in parseFile
Upload(name) ==
  /\ started < MaxCalls
  /\ LET c == started + 1
         path == uploadPath(clock, name)
     IN /\ started' = c
        /\ files' = files \cup {path}
        /\ calls' = [calls EXCEPT ![c] =
             [Idle EXCEPT !.pc = "parse", !.op = "upload", !.name = name, !.path = path,
                          !.pdf = (toLowerCase(extname(path)) = sPdf)]]
        /\ ev' = NoEvent
  /\ UNCHANGED <<probe, chat, mistralApiKey, documents, chunks, clock, fb>>

\* parseFile throws: the file cannot be read, or pdf-parse fails
ParseFail(c) ==
  /\ calls[c].pc = "parse"
  /\ FailUpload(c, calls[c], <<>>)
  /\ UNCHANGED <<probe, chat, mistralApiKey, documents, chunks, clock, files, started, fb>>

\* parseFile returns the text of the file
ParseOk(c, content) ==
  /\ calls[c].pc = "parse"
  /\ calls[c].path \in files
  /\ IF calls[c].pdf /\ isBlankOf[content]
     THEN /\ FailUpload(c, calls[c], <<>>)
          /\ UNCHANGED <<documents, chunks, fb>>
     ELSE Ingest(c, [calls[c] EXCEPT !.textChunks = textChunkIds[content],
                                     !.uploadDate = clock],
                 chunks, 0, <<>>)
  /\ UNCHANGED <<probe, chat, mistralApiKey, clock, files, started>>

\* the embedding request of chunk i comes to resp and getEmbedding returns
EmbedDone(c, resp) ==
  /\ calls[c].pc = "embed"
  /\ calls[c].op = "upload"
  /\ LET rec == calls[c]
         chunkText == rec.textChunks[rec.i + 1]
         r == getEmbedding(chunkText, resp)
         e == EmbEvent(chunkText, resp.kind, r)
     IN IF r.tag = "throw"
        THEN /\ FailUpload(c, rec, <<e>>)
             /\ UNCHANGED <<documents, chunks, fb>>
        ELSE Ingest(c, rec, Append(chunks, newChunk(rec, c, rec.i, r.val)), rec.i + 1, <<e>>)
  /\ UNCHANGED <<probe, chat, mistralApiKey, clock, files, started>>

\* fs.unlink (lines 212, 264) removes the file: the call returns
UnlinkOk(c) ==
  /\ calls[c].pc = "unlink"
  /\ calls[c].path \in files
  /\ files' = files \ {calls[c].path}
  /\ EndUpload(c, calls[c], "ok", calls[c].tries + 1, <<>>)
  /\ UNCHANGED <<probe, chat, mistralApiKey, documents, chunks, clock, started, fb>>

\* fs.unlink (lines 212, 264) fails
UnlinkFail(c) ==
  /\ calls[c].pc = "unlink"
  /\ FailUpload(c, [calls[c] EXCEPT !.tries = @ + 1], <<>>)
  /\ UNCHANGED <<probe, chat, mistralApiKey, documents, chunks, clock, files, started, fb>>

\* the catch block of processAndAddPDF: fs.unlink (line 219), whose failure
\* is ignored, then the error is rethrown
Cleanup(c, removed) ==
  /\ calls[c].pc = "cleanup"
  /\ removed => calls[c].path \in files
  /\ files' = IF removed THEN files \ {calls[c].path} ELSE files
  /\ EndUpload(c, calls[c], "error", calls[c].tries + 1, <<>>)
  /\ UNCHANGED <<probe, chat, mistralApiKey, documents, chunks, clock, started, fb>>

(***************************************************************************)
(* DELETE /api/admin/files/:id -> deleteDocument: no suspension point.     *)
(***************************************************************************)
\* a delete without the look-up of lines 344-347: it reports success for
\* every id
deleteDocumentUnchecked(id) ==
  LET name == IF id \in docIds THEN docGet(id).name ELSE <<>>
  IN /\ chunks' = chunksWithout(chunks, name)
     /\ documents' = docDelete(documents, id)
     /\ ev' = [NoEvent EXCEPT !.kind = "return", !.call = started + 1, !.op = "delete",
                              !.outcome = "ok", !.arg = id, !.name = name]

\* lines 343-353; the outcome "notfound" is the Error('Document not found')
\* of line 346, which the route answers with status 500
deleteDocument(id) ==
  IF id \notin docIds
  THEN /\ ev' = [NoEvent EXCEPT !.kind = "return", !.call = started + 1, !.op = "delete",
                                !.outcome = "notfound", !.arg = id]
       /\ UNCHANGED <<documents, chunks>>
  ELSE LET doc == docGet(id)
       IN /\ chunks' = chunksWithout(chunks, doc.name)
          /\ documents' = docDelete(documents, id)
          /\ ev' = [NoEvent EXCEPT !.kind = "return", !.call = started + 1, !.op = "delete",
                                   !.outcome = "ok", !.arg = id, !.name = doc.name,
                                   !.removed = Len(chunks) - Len(chunksWithout(chunks, doc.name))]

Delete(id) ==
  /\ started < MaxCalls
  /\ started' = started + 1
  /\ deleteDocument(id)
  /\ UNCHANGED <<probe, chat, mistralApiKey, clock, files, calls, fb>>

(***************************************************************************)
(* POST /api/chat -> searchSimilar.                                        *)
(***************************************************************************)
\* a search that renders every place the store had when it was called
EndSearchStale(c, topK, embs, relevantChunks) ==
  /\ calls' = [calls EXCEPT ![c] = Idle]
  /\ ev' = [NoEvent EXCEPT !.kind = "return", !.call = c, !.op = "search",
                           !.outcome = "ok", !.topK = topK, !.embs = embs,
                           !.rendered = [k \in 1..calls[c].seen |->
                                           [index |-> k, score |-> ZeroScore]],
                           !.empty = (calls[c].seen = 0),
                           !.seen = calls[c].seen]

\* searchSimilar returns the context made of relevantChunks (their places in
\* this.chunks and their scores).  `seen` is not a value of the code: the
\* number of chunks the store held when the call began
EndSearch(c, topK, embs, relevantChunks) ==
  /\ calls' = [calls EXCEPT ![c] = Idle]
  /\ ev' = [NoEvent EXCEPT !.kind = "return", !.call = c, !.op = "search",
                           !.outcome = "ok", !.topK = topK, !.embs = embs,
                           !.rendered = relevantChunks,
                           !.empty = (renderContext(chunks, relevantChunks) = <<>>),
                           !.seen = IF calls[c].pc = "embed" THEN calls[c].seen
                                    ELSE Len(chunks)]

\* lines 284-319 once getEmbedding(query) has ended as r; an exception is
\* caught (line 316) and the empty string returned
FinishSearch(c, topK, r, e) ==
  /\ fb' = fallbackResults(fb, <<e>>)
  /\ IF r.tag = "throw"
     THEN EndSearch(c, topK, <<e>>, <<>>)
     ELSE EndSearch(c, topK, <<e>>, searchRanked(chunks, r.val, topK))

\* a search without the test of lines 276-278: it embeds the query on an
\* empty store too
SearchUnchecked(query, topK) ==
  /\ started < MaxCalls
  /\ started' = started + 1
  /\ LET c == started + 1
     IN IF mistralApiKey
        THEN /\ calls' = [calls EXCEPT ![c] =
                  [Idle EXCEPT !.pc = "embed", !.op = "search", !.query = query,
                               !.topK = topK]]
             /\ ev' = NoEvent
             /\ fb' = fb
        ELSE LET r == getEmbeddingNoKey(query)
             IN FinishSearch(c, topK, r, EmbEvent(query, "nokey", r))
  /\ UNCHANGED <<probe, chat, mistralApiKey, documents, chunks, clock, files>>

Search(query, topK) ==
  /\ started < MaxCalls
  /\ started' = started + 1
  /\ LET c == started + 1
     IN IF Len(chunks) = 0
        THEN /\ EndSearch(c, topK, <<>>, <<>>)
             /\ fb' = fb
        ELSE IF mistralApiKey
        THEN /\ calls' = [calls EXCEPT ![c] =
                  [Idle EXCEPT !.pc = "embed", !.op = "search", !.query = query,
                               !.topK = topK, !.seen = Len(chunks)]]
             /\ ev' = NoEvent
             /\ fb' = fb
        ELSE LET r == getEmbeddingNoKey(query)
             IN FinishSearch(c, topK, r, EmbEvent(query, "nokey", r))
  /\ UNCHANGED <<probe, chat, mistralApiKey, documents, chunks, clock, files>>

\* the embedding request of the query comes to resp
SearchEmbedDone(c, resp) ==
  /\ calls[c].pc = "embed"
  /\ calls[c].op = "search"
  /\ LET r == getEmbedding(calls[c].query, resp)
     IN FinishSearch(c, calls[c].topK, r, EmbEvent(calls[c].query, resp.kind, r))
  /\ UNCHANGED <<probe, chat, mistralApiKey, documents, chunks, clock, files, started>>

\* time passes
Tick ==
  /\ clock < MaxClock
  /\ clock' = clock + 1
  /\ ev' = NoEvent
  /\ UNCHANGED <<probe, chat, mistralApiKey, documents, chunks, files, started, calls, fb>>

Next ==
  \/ \E name \in Names : Upload(name)
  \/ \E c \in CallIds : ParseFail(c)
  \/ \E c \in CallIds, content \in Contents : ParseOk(c, content)
  \/ \E c \in CallIds, resp \in UploadResponses : EmbedDone(c, resp)
  \/ \E c \in CallIds : UnlinkOk(c)
  \/ \E c \in CallIds : UnlinkFail(c)
  \/ \E c \in CallIds, removed \in BOOLEAN : Cleanup(c, removed)
  \/ \E id \in docIds \cup {UnknownId} : Delete(id)
  \/ \E query \in Queries, topK \in TopKs : Search(query, topK)
  \/ \E c \in CallIds, resp \in Responses : SearchEmbedDone(c, resp)
  \/ Tick

Spec == Init /\ [][Next]_vars

(***************************************************************************)
(* Searches on a store that holds documents.                               *)
(***************************************************************************)
\* The chunks an upload of the file `name` with the text `content` pushes
\* (lines 185-202, 243-256) when every getEmbedding call returns vec, or
\* the fallback vector for vec = NoVector.  The uploads are requests before
\* the ones the model counts: their chunks carry the request number 0.
loadRounds(chs, rec, vec) ==
  LET kept(i) == ~(rec.pdf /\ lengthOf[rec.textChunks[i + 1]] < MinChunkLength)
      rounds == SelectSeq([i \in 1..Len(rec.textChunks) |-> i - 1], kept)
      embedding(text) == IF vec = NoVector THEN simpleEmbeddingOf[text] ELSE vec
  IN chs \o [k \in 1..Len(rounds) |->
               newChunk(rec, 0, rounds[k], embedding(rec.textChunks[rounds[k] + 1]))]

loadChunks(chs, name, content, vec) ==
  loadRounds(chs,
             [Idle EXCEPT !.name = name, !.textChunks = textChunkIds[content],
                          !.pdf = (toLowerCase(extname(uploadPath(clock, name))) = sPdf),
                          !.uploadDate = clock],
             vec)

\* the document the upload registers (lines 205-209, 258-262)
loadDocument(docs, name) ==
  docSet(docs, generateDocId(name, clock), [name |-> name, uploadDate |-> clock, by |-> 0])

\* what the earlier uploads were: of "a.md" first, then of "a.pdf" or none
\* (NoLoad: the blank text has no chunks)
Loads == [content : {hAB, hTwo}, vec : {NoVector} \cup ProviderVectors]
NoLoad == [content |-> hBlank, vec |-> NoVector]

\* The server after one or two uploads that have ended with success, and no
\* request in flight.  Without an API key every embedding is the fallback.
LoadedInit ==
  /\ mistralApiKey \in BOOLEAN
  /\ clock = 1
  /\ files = {}
  /\ started = 0
  /\ calls = [c \in CallIds |-> Idle]
  /\ ev = NoEvent
  /\ fb = NoFallbacks
  /\ chat = NoChat
  /\ probe = NoProbe
  /\ \E first \in Loads, second \in {l \in Loads : l.content = hTwo} \cup {NoLoad} :
       /\ mistralApiKey \/ (first.vec = NoVector /\ second.vec = NoVector)
       /\ chunks = loadChunks(loadChunks(<<>>, nMd, first.content, first.vec),
                              nPdf, second.content, second.vec)
       /\ documents = IF second = NoLoad THEN loadDocument(<<>>, nMd)
                      ELSE loadDocument(loadDocument(<<>>, nMd), nPdf)

\* one search at a time
LoadedNext ==
  \/ /\ \A c \in CallIds : calls[c].pc = "idle"
     /\ \E query \in Queries, topK \in TopKs : Search(query, topK)
  \/ \E c \in CallIds, resp \in Responses : SearchEmbedDone(c, resp)

LoadedSpec == LoadedInit /\ [][LoadedNext]_vars

(***************************************************************************)
(* Deletes on a store that holds documents.                                *)
(***************************************************************************)
LoadedDelete == \E id \in docIds \cup {UnknownId} : Delete(id)

LoadedDeleteSpec == LoadedInit /\ [][LoadedDelete]_vars

(***************************************************************************)
(* Searches and deletes on a store that holds documents: a delete may run  *)
(* while a search awaits the embedding of its query.                       *)
(***************************************************************************)
LoadedSearchDeleteNext == LoadedNext \/ LoadedDelete

LoadedSearchDeleteSpec == LoadedInit /\ [][LoadedSearchDeleteNext]_vars

(***************************************************************************)
(* Uploads of "a.md" and deletes on a store that holds documents: the      *)
(* store already has a document of the name of the upload, and a delete    *)
(* may run while the upload awaits an embedding or fs.unlink.              *)
(***************************************************************************)
\* one upload at a time
LoadedUploadNext ==
  \/ /\ \A c \in CallIds : calls[c].pc = "idle"
     /\ Upload(nMd)
  \/ \E c \in CallIds, content \in Contents : ParseOk(c, content)
  \/ \E c \in CallIds, resp \in UploadResponses : EmbedDone(c, resp)
  \/ \E c \in CallIds : UnlinkOk(c)
  \/ LoadedDelete
  \/ Tick

LoadedUploadSpec == LoadedInit /\ [][LoadedUploadNext]_vars

(***************************************************************************)
(* splitText on its own, on every text of up to MaxTextLen characters of   *)
(* SplitAlphabet.                                                          *)
(***************************************************************************)
MaxTextLen == 6

\* 'a', 'b', ' ', '.', '!'
SplitAlphabet == {97, 98, Ch.sp, Ch.dot, Ch.bang}
SplitTexts == UNION {[1..len -> SplitAlphabet] : len \in 0..MaxTextLen}
\* chunkSize, and overlap (the code only tests overlap > 0)
SplitSizes == {1, 3, 4, 5}
SplitOverlaps == {0, Overlap}

SplitInit ==
  /\ mistralApiKey = FALSE
  /\ documents = <<>>
  /\ chunks = <<>>
  /\ clock = 1
  /\ files = {}
  /\ started = 0
  /\ calls = [c \in CallIds |-> Idle]
  /\ ev = NoEvent
  /\ fb = NoFallbacks
  /\ chat = NoChat
  /\ probe \in [text : SplitTexts, chunkSize : SplitSizes, overlap : SplitOverlaps,
                 out : {<<>>}, done : {FALSE}]

\* the call returns
SplitCall ==
  /\ ~probe.done
  /\ probe' = [probe EXCEPT !.out = splitText(probe.text, probe.chunkSize, probe.overlap),
                            !.done = TRUE]
  /\ UNCHANGED <<chat, mistralApiKey, documents, chunks, clock, files, started, calls, ev, fb>>

SplitSpec == SplitInit /\ [][SplitCall]_vars

(***************************************************************************)
(* cosineSimilarity on its own, in both revisions of the source file, on   *)
(* every pair of vectors of up to MaxVecDim entries of VecEntries.         *)
(***************************************************************************)
MaxVecDim == 3

VecEntries == {-1, 0, 2}
CosineVectors == UNION {[dim : {d}, vals : [1..d -> VecEntries]] : d \in 0..MaxVecDim}

CosineInit ==
  /\ mistralApiKey = FALSE
  /\ documents = <<>>
  /\ chunks = <<>>
  /\ clock = 1
  /\ files = {}
  /\ started = 0
  /\ calls = [c \in CallIds |-> Idle]
  /\ ev = NoEvent
  /\ fb = NoFallbacks
  /\ chat = NoChat
  /\ probe \in [vec1 : CosineVectors, vec2 : CosineVectors,
                 out : {ZeroScore}, done : {FALSE}, out2 : {ZeroScore}, done2 : {FALSE}]

\* the call of the first revision returns
CosineCall ==
  /\ ~probe.done
  /\ probe' = [probe EXCEPT !.out = cosineSimilarity(probe.vec1, probe.vec2),
                            !.done = TRUE]
  /\ UNCHANGED <<chat, mistralApiKey, documents, chunks, clock, files, started, calls, ev, fb>>

\* the call of the second revision returns
CosineCall2 ==
  /\ ~probe.done2
  /\ probe' = [probe EXCEPT !.out2 = cosineSimilarity2(probe.vec1, probe.vec2),
                            !.done2 = TRUE]
  /\ UNCHANGED <<chat, mistralApiKey, documents, chunks, clock, files, started, calls, ev, fb>>

CosineNext == CosineCall \/ CosineCall2

CosineSpec == CosineInit /\ [][CosineNext]_vars

(***************************************************************************)
(* simpleEmbedding on its own, on every text of up to MaxEmbedLen          *)
(* characters of EmbedAlphabet.  A word of 7 letters overflows 32 bits.    *)
(***************************************************************************)
MaxEmbedLen == 8

\* 'A', 'z', ' '
EmbedAlphabet == {65, 122, Ch.sp}
EmbedTexts == UNION {[1..len -> EmbedAlphabet] : len \in 0..MaxEmbedLen}

EmbedInit ==
  /\ mistralApiKey = FALSE
  /\ documents = <<>>
  /\ chunks = <<>>
  /\ clock = 1
  /\ files = {}
  /\ started = 0
  /\ calls = [c \in CallIds |-> Idle]
  /\ ev = NoEvent
  /\ fb = NoFallbacks
  /\ chat = NoChat
  /\ probe \in [text : EmbedTexts, out : {NoVector}, done : {FALSE}]

\* the call returns
EmbedCall ==
  /\ ~probe.done
  /\ probe' = [probe EXCEPT !.out = simpleEmbedding(probe.text), !.done = TRUE]
  /\ UNCHANGED <<chat, mistralApiKey, documents, chunks, clock, files, started, calls, ev, fb>>

EmbedSpec == EmbedInit /\ [][EmbedCall]_vars

(***************************************************************************)
(* ChatService (chatService.ts).  The server makes one instance and never  *)
(* passes a userId, so every chat call is of the session 'default'; it     *)
(* never calls clearHistory.  The service reads the same MISTRAL_API_KEY   *)
(* as the store.  A message of the history is held as its role.            *)
(***************************************************************************)
\* extractSources (lines 160-176): the captures of /\[Source: ([^\]]+)\]/g
\* from index `from` on, each kept once, after the ones in `sources`.  A
\* match is the tag, one or more characters other than ']' and the first
\* ']' after them; the search goes on after the match.
RECURSIVE matchSources(_, _, _)
matchSources(context, from, sources) ==
  LET n == Len(context)
      closes(i) == {j \in (i + 10)..n : context[j] = Ch.rbr}
      starts == {i \in from..(n - 10) :
                   /\ SubSeq(context, i, i + 8) = sSource
                   /\ context[i + 9] # Ch.rbr
                   /\ closes(i) # {}}
  IN IF starts = {} THEN sources
     ELSE LET i == CHOOSE x \in starts : \A y \in starts : x <= y
              j == CHOOSE x \in closes(i) : \A y \in closes(i) : x <= y
              source == SubSeq(context, i + 9, j - 1)
          IN matchSources(context, j + 1,
                          IF \E k \in 1..Len(sources) : sources[k] = source
                          THEN sources ELSE Append(sources, source))

extractSources(context) == matchSources(context, 1, <<>>)

\* if (history.length > 20) history.splice(0, history.length - 20)
HistoryLimit == 20
limitHistory(history) ==
  IF Len(history) > HistoryLimit
  THEN SubSeq(history, Len(history) - HistoryLimit + 1, Len(history))
  ELSE history

\* number of chat calls in a run, and of chat calls in flight at a time
MaxChats == 11
MaxPending == 2

\* the contexts the route passes to chat: '' and the context of one chunk
ChatContexts ==
  << <<>>,
     renderContext(<<[source |-> nMd, text |-> hAB]>>, <<[index |-> 1, score |-> ZeroScore]>>) >>

\* the catch block (lines 77-84): the reply is getFallbackResponse(message)
\* without sources; the history keeps what was pushed
chatCatch(c, history) ==
  [chat EXCEPT !.history = history,
               !.pending = {p \in chat.pending : p.call # c},
               !.started = IF c > chat.started THEN c ELSE chat.started,
               !.last = [call |-> c, response |-> "fallback", sources |-> <<>>]]

\* chat, lines 37-60: the message of the user is pushed; without a key
\* callMistralAPI throws (line 89) and the catch block runs in the same
\* continuation; with a key the call suspends on fetch
ChatCall(context) ==
  /\ chat.started < MaxChats
  /\ Cardinality(chat.pending) < MaxPending
  /\ LET c == chat.started + 1
         pushed == Append(chat.history, "user")
     IN chat' = IF ~mistralApiKey THEN chatCatch(c, pushed)
                ELSE [chat EXCEPT !.history = pushed,
                                  !.pending = @ \cup {[call |-> c, context |-> context]},
                                  !.started = c,
                                  !.last = NoReply]
  /\ UNCHANGED <<probe, mistralApiKey, documents, chunks, clock, files, started, calls, ev, fb>>

\* callMistralAPI ends: with the content of the first choice (ok), lines
\* 62-76, where sources is undefined (here <<>>) when there is none; or with
\* an exception (fetch rejects, the status is not ok, no choices)
ChatDone(p, ok) ==
  /\ p \in chat.pending
  /\ chat' = IF ok
             THEN [chat EXCEPT !.history = limitHistory(Append(chat.history, "assistant")),
                               !.pending = @ \ {p},
                               !.last = [call |-> p.call, response |-> "assistant",
                                         sources |-> extractSources(ChatContexts[p.context])]]
             ELSE chatCatch(p.call, chat.history)
  /\ UNCHANGED <<probe, mistralApiKey, documents, chunks, clock, files, started, calls, ev, fb>>

ChatNext ==
  \/ \E context \in DOMAIN ChatContexts : ChatCall(context)
  \/ \E p \in chat.pending, ok \in BOOLEAN : ChatDone(p, ok)

ChatSpec == Init /\ [][ChatNext]_vars

(***************************************************************************)
(* extractSources on the contexts searchSimilar renders (lines 308-315)    *)
(* of up to MaxBlocks chunks with the names and texts below.               *)
(***************************************************************************)
MaxBlocks == 3

SourceNames == {nMd, nPdf, nBracket}
SourceTexts == {hAB, hSrc}
SourceBlocks ==
  UNION {[1..n -> [source : SourceNames, text : SourceTexts]] : n \in 1..MaxBlocks}

SourcesInit ==
  /\ mistralApiKey = FALSE
  /\ documents = <<>>
  /\ chunks = <<>>
  /\ clock = 1
  /\ files = {}
  /\ started = 0
  /\ calls = [c \in CallIds |-> Idle]
  /\ ev = NoEvent
  /\ fb = NoFallbacks
  /\ chat = NoChat
  /\ probe \in [chs : SourceBlocks, context : {<<>>}, out : {<<>>}, done : {FALSE}]

\* searchSimilar renders the chunks, in their order, and extractSources
\* reads the context
SourcesCall ==
  /\ ~probe.done
  /\ LET all == [k \in 1..Len(probe.chs) |-> [index |-> k, score |-> ZeroScore]]
         context == renderContext(probe.chs, all)
     IN probe' = [probe EXCEPT !.context = context, !.out = extractSources(context),
                               !.done = TRUE]
  /\ UNCHANGED <<chat, mistralApiKey, documents, chunks, clock, files, started, calls, ev, fb>>

SourcesSpec == SourcesInit /\ [][SourcesCall]_vars

(***************************************************************************)
(* The upload steps that settle on the server's own machine: the file      *)
(* system answers every readFile and unlink, and the event loop runs the   *)
(* continuation.  No step of the program answers for the provider:         *)
(* getEmbedding awaits fetch (line 41) with no timeout and no AbortSignal. *)
(***************************************************************************)
LocalStep ==
  \/ \E c \in CallIds : ParseFail(c)
  \/ \E c \in CallIds, content \in Contents : ParseOk(c, content)
  \/ \E c \in CallIds : UnlinkOk(c)
  \/ \E c \in CallIds : UnlinkFail(c)
  \/ \E c \in CallIds, removed \in BOOLEAN : Cleanup(c, removed)

FairSpec == Spec /\ WF_vars(LocalStep)


(***************************************************************************)
(* Properties.                                                             *)
(***************************************************************************)
\* C1: immediately after deleteDocument(id) has returned true, no chunk of
\* the store has the deleted document's name as its source, and
\* listDocuments() has no entry with the id.
CascadingDelete ==
  (ev.kind = "return" /\ ev.op = "delete" /\ ev.outcome = "ok") =>
     /\ \A k \in 1..Len(chunks) : chunks[k].source # ev.name
     /\ \A k \in 1..Len(documents) : listDocuments(documents)[k].id # ev.arg

\* a delete that removed chunks
CascadingDeleteWitness ==
  ev.kind = "return" /\ ev.op = "delete" /\ ev.outcome = "ok" /\ ev.removed > 0

\* C2: deleteDocument(id) with an id that is no key of this.documents
\* fails with the error 'Document not found' and leaves this.documents and
\* this.chunks as they were before the call.
DeleteUnknownId ==
  [][(ev'.kind = "return" /\ ev'.op = "delete" /\ ev'.arg \notin docIds) =>
       (ev'.outcome = "notfound" /\ documents' = documents /\ chunks' = chunks)]_vars

\* a delete of an unknown id on a store that holds a document and chunks
DeleteUnknownIdWitness ==
  /\ ev.kind = "return" /\ ev.op = "delete" /\ ev.outcome = "notfound"
  /\ Len(documents) > 0 /\ Len(chunks) > 0

\* C3: in every reachable state the source of every stored chunk is the
\* name of exactly one entry of this.documents.
ChunkOfOneDocument ==
  \A k \in 1..Len(chunks) :
     Cardinality({d \in 1..Len(documents) : documents[d].name = chunks[k].source}) = 1

\* C4: when an upload ends with an error, the store holds no chunk and no
\* document that the upload created.
IngestionAllOrNothing ==
  (ev.kind = "return" /\ ev.op = "upload" /\ ev.outcome = "error") =>
     /\ \A k \in 1..Len(chunks) : chunks[k].by # ev.call
     /\ \A d \in 1..Len(documents) : documents[d].by # ev.call

\* C5: when an upload has ended, with success or with an error, on the PDF
\* path or on the other, fs.unlink has been called on its file.
TemporaryFileRelease ==
  (ev.kind = "return" /\ ev.op = "upload") => ev.tries >= 1

\* C6: every getEmbedding call returns a vector and throws nothing, and
\* whenever the provider gave no vector (no API key, network error, status
\* not ok, unparsable body, data missing, empty or without an embedding
\* array) the vector is the fallback vector of the text.
EmbedderNeverFails ==
  \A k \in 1..Len(ev.embs) :
     /\ ev.embs[k].tag = "return"
     /\ ev.embs[k].val # NoVector
     /\ ev.embs[k].cause # "ok" => ev.embs[k].val = simpleEmbeddingOf[ev.embs[k].text]

\* a call whose request was answered with data: [null], the TypeError of
\* line 65 caught at line 73, after a call the provider answered with a vector
EmbedderNeverFailsWitness ==
  /\ \E k \in 1..Len(ev.embs) :
        /\ ev.embs[k].cause = "nullfirst"
        /\ ev.embs[k].tag = "return"
        /\ ev.embs[k].val = simpleEmbeddingOf[ev.embs[k].text]
  /\ \E k \in 1..Len(chunks) : chunks[k].embedding = vOne

\* C7: every getEmbedding call eventually returns, whatever the provider
\* does: a request suspended on the provider does not stay suspended.
EmbeddingCallReturns ==
  \A c \in CallIds : (calls[c].pc = "embed") ~> (calls[c].pc # "embed")

ThresholdProperty ==
  (ev.kind = "return" /\ ev.op = "search") =>
     \A j \in 1..Len(ev.rendered) :
        LET item == ev.rendered[j]
            scores == [k \in 1..Len(chunks) |-> scoreChunk(ev.embs[1].val, chunks[k])]
        IN /\ item.score = scores[item.index]
           /\ aboveMinimum(item.score)
           /\ \A k \in 1..Len(chunks) : aboveHalfOf(item.score, scores[k])

\* a search that rendered a chunk and left out one of the topK whose score
\* is above 0.3 and not above half the best
ThresholdPropertyWitness ==
  /\ ev.kind = "return" /\ ev.op = "search"
  /\ Len(ev.rendered) > 0
  /\ ev.topK >= Len(chunks)
  /\ \E k \in 1..Len(chunks) :
        LET score == scoreChunk(ev.embs[1].val, chunks[k])
        IN /\ aboveMinimum(score)
           /\ ~aboveHalfOf(score, ev.rendered[1].score)

\* C10: for topK >= 0 searchSimilar renders at most topK chunks, in
\* descending order of score with chunks of equal scores in store order, and
\* no chunk left out has a higher score than a rendered one, or an equal
\* score and a place before it in the store.
Ranking ==
  (ev.kind = "return" /\ ev.op = "search" /\ ev.topK >= 0) =>
     LET r == ev.rendered
         shown == {r[j].index : j \in 1..Len(r)}
         scores == [k \in 1..Len(chunks) |-> scoreChunk(ev.embs[1].val, chunks[k])]
         before(a, ia, b, ib) ==
           \/ scoreCmp(a, b) = 1
           \/ scoreCmp(a, b) = 0 /\ ia < ib
     IN /\ Len(r) <= ev.topK
        /\ \A j \in 1..Len(r) : r[j].index \in 1..Len(chunks)
        /\ \A j \in 1..Len(r) : r[j].score = scores[r[j].index]
        /\ \A i, j \in 1..Len(r) :
              i < j => before(r[i].score, r[i].index, r[j].score, r[j].index)
        /\ \A j \in 1..Len(r), k \in (1..Len(chunks)) \ shown :
              before(r[j].score, r[j].index, scores[k], k)

\* a search cut at topK that rendered two chunks of equal scores and left
\* out a third chunk of the same score
RankingWitness ==
  /\ ev.kind = "return" /\ ev.op = "search"
  /\ Len(ev.rendered) = 2
  /\ ev.topK = 2
  /\ scoreCmp(ev.rendered[1].score, ev.rendered[2].score) = 0
  /\ \E k \in 1..Len(chunks) :
        /\ \A j \in 1..2 : ev.rendered[j].index # k
        /\ scoreCmp(scoreChunk(ev.embs[1].val, chunks[k]), ev.rendered[1].score) = 0

\* C11: searchSimilar never raises; called on a store without chunks it
\* returns the empty string at once and calls no embedder; when no chunk
\* passes the threshold it returns the empty string.
QueryNeverAnError ==
  [][/\ (ev'.kind = "return" /\ ev'.op = "search") =>
          (ev'.outcome = "ok" /\ (ev'.rendered = <<>> => ev'.empty))
     /\ (/\ started' = started + 1
         /\ ev'.op = "search" \/ calls'[started'].op = "search"
         /\ Len(chunks) = 0) =>
          /\ ev'.kind = "return" /\ ev'.op = "search" /\ ev'.call = started'
          /\ ev'.embs = <<>>
          /\ ev'.empty]_vars

\* a search on a store with chunks that embedded the query, found no chunk
\* above the threshold and returned the empty string
QueryNeverAnErrorWitness ==
  /\ ev.kind = "return" /\ ev.op = "search"
  /\ Len(chunks) > 0
  /\ ev.embs # <<>>
  /\ ev.rendered = <<>>
  /\ ev.empty

\* C12: every sentence-like unit of the normalized text (a maximal run of
\* characters other than '.', '!' and '?', trimmed and not blank), the last
\* one with no terminal punctuation included, is a substring of a chunk that
\* splitText returns.
ChunkingCoverage ==
  probe.done =>
     LET norm == trim(collapseSpaces(probe.text))
         n == Len(norm)
         starts == {i \in 1..n : ~isPunct(norm[i]) /\ (i = 1 \/ isPunct(norm[i - 1]))}
         stop(i) == CHOOSE j \in i..n :
                      /\ \A m \in i..j : ~isPunct(norm[m])
                      /\ (j = n \/ isPunct(norm[j + 1]))
         units == {trim(SubSeq(norm, i, stop(i))) : i \in starts} \ {<<>>}
     IN \A unit \in units : \E k \in 1..Len(probe.out) : includes(probe.out[k], unit)

\* C13: no chunk that splitText returns is longer than chunkSize, but for
\* a chunk that is one sentence longer than chunkSize.
ChunkSizeBound ==
  probe.done =>
     LET sentences == matchSentences(trim(collapseSpaces(probe.text)))
     IN \A k \in 1..Len(probe.out) :
           \/ Len(probe.out[k]) <= probe.chunkSize
           \/ \E j \in 1..Len(sentences) : probe.out[k] = trim(sentences[j])

\* C14: in every reachable state every chunk of the store has a text of at
\* least 50 characters, on the PDF path and on the other.
MinimumChunkLength ==
  \A k \in 1..Len(chunks) : lengthOf[chunks[k].text] >= MinChunkLength

\* C15: in every reachable state no two chunks of the store have the same
\* id, also for two ingestions of one source name at one clock value.
ChunkIdsUnique ==
  \A j, k \in 1..Len(chunks) : j # k => chunks[j].id # chunks[k].id

\* C16: every upload that ends with success has added one entry to
\* this.documents and replaced none, also when two uploads register at the
\* same clock value under names with the same sanitized form.
OneNewDocumentPerUpload ==
  (ev.kind = "return" /\ ev.op = "upload" /\ ev.outcome = "ok") => ev.registered

\* C18: no search reads the store while an ingestion is partly applied:
\* some of its chunks pushed, the rest and its document not yet registered.
NoPartialReads ==
  (ev.kind = "return" /\ ev.op = "search" /\ ev.embs # <<>>) =>
     ~\E c \in CallIds :
        /\ calls[c].op = "upload"
        /\ calls[c].pc = "embed"
        /\ \E k \in 1..Len(chunks) : chunks[k].by = c

\* C17: chunks of different source names are different chunks, and a
\* successful deleteDocument leaves the records and the chunks of the
\* documents of every other name as they were.
IndependentDocuments ==
  /\ [](\A j, k \in 1..Len(chunks) :
          chunks[j].source # chunks[k].source => chunks[j].id # chunks[k].id)
  /\ [][(ev'.kind = "return" /\ ev'.op = "delete" /\ ev'.outcome = "ok") =>
          LET otherChunk(ch) == ch.source # ev'.name
              otherDoc(d) == d.name # ev'.name
          IN /\ SelectSeq(chunks', otherChunk) = SelectSeq(chunks, otherChunk)
             /\ SelectSeq(documents', otherDoc) = SelectSeq(documents, otherDoc)]_vars

\* the same text was ingested as a.md and as a.pdf; the delete of a.md has
\* removed its two chunks and the two chunks of a.pdf are in the store
IndependentDocumentsWitness ==
  /\ ev.kind = "return" /\ ev.op = "delete" /\ ev.outcome = "ok"
  /\ ev.name = nMd
  /\ ev.removed = 2
  /\ Len(chunks) = 2
  /\ \A k \in 1..Len(chunks) : chunks[k].source = nPdf /\ chunks[k].text \in {hTwo, textId(sOne)}
  /\ Len(documents) = 1

\* C19: an ingestion waits for one embedding at a time, the one of its
\* segment i, with only chunks of earlier segments pushed; and the chunks
\* of one ingestion stand in the store in increasing order of segment index.
SourceOrder ==
  /\ \A j, k \in 1..Len(chunks) :
        (j < k /\ chunks[j].by = chunks[k].by /\ chunks[j].source = chunks[k].source) =>
           chunks[j].seg < chunks[k].seg
  /\ \A c \in CallIds :
        (calls[c].op = "upload" /\ calls[c].pc = "embed") =>
           \A k \in 1..Len(chunks) : chunks[k].by = c => chunks[k].seg < calls[c].i

\* the chunks of two ingestions interleaved in the store
SourceOrderWitness ==
  \E i, j, k \in 1..Len(chunks) :
     /\ i < j /\ j < k
     /\ chunks[i].by = chunks[k].by
     /\ chunks[i].by # chunks[j].by

\* C20 as stated: a chunk whose embedding differs in dimension from the
\* query embedding is scored by lexical overlap, the fraction of the words
\* of the query that its text includes.
LexicalFallback ==
  (ev.kind = "return" /\ ev.op = "search" /\ ev.embs # <<>>) =>
     \A k \in 1..Len(chunks) :
        chunks[k].embedding.dim # ev.embs[1].val.dim =>
           scoreCmp(scoreChunk(ev.embs[1].val, chunks[k]),
                    textSimilarity(Text[ev.embs[1].text], Text[chunks[k].text])) = 0

\* C20 as the code has it: every chunk of the store has an embedding, so no
\* chunk is scored by lexical overlap; a chunk whose embedding differs in
\* dimension from the query embedding has the score 0 and is not rendered.
DimensionMismatchScoresZero ==
  (ev.kind = "return" /\ ev.op = "search" /\ ev.embs # <<>>) =>
     \A k \in 1..Len(chunks) :
        /\ chunks[k].embedding # NoVector
        /\ chunks[k].embedding.dim # ev.embs[1].val.dim =>
              /\ scoreChunk(ev.embs[1].val, chunks[k]) = ZeroScore
              /\ \A j \in 1..Len(ev.rendered) : ev.rendered[j].index # k

\* a search whose store has a chunk of another dimension with every word of
\* the query in its text (lexical overlap 1), which is not rendered
DimensionMismatchScoresZeroWitness ==
  /\ ev.kind = "return" /\ ev.op = "search" /\ ev.embs # <<>>
  /\ \E k \in 1..Len(chunks) :
        /\ chunks[k].embedding.dim # ev.embs[1].val.dim
        /\ textSimilarity(Text[ev.embs[1].text], Text[chunks[k].text]).num
              = Len(splitWords(toLowerCase(Text[ev.embs[1].text])))
        /\ \A j \in 1..Len(ev.rendered) : ev.rendered[j].index # k

\* C21: cosineSimilarity(u, v), in either revision, is exactly 0 whenever u
\* or v is the all-zero vector, for every pair of vectors of one dimension;
\* and for every such pair the result is a number whose divisor is not 0.
CosineZeroNorm ==
  LET isZero(v) == \A i \in 1..Len(v.vals) : v.vals[i] = 0
      sameDim == probe.vec1.dim = probe.vec2.dim
      zero == isZero(probe.vec1) \/ isZero(probe.vec2)
      number(score) == score.n1 > 0 /\ score.n2 > 0
  IN /\ probe.done /\ sameDim => number(probe.out) /\ (zero => probe.out = ZeroScore)
     /\ probe.done2 /\ sameDim => number(probe.out2) /\ (zero => probe.out2 = ZeroScore)

\* both revisions have returned 0 for the zero vector of three entries and a
\* vector of three entries that is not zero
CosineZeroNormWitness ==
  /\ probe.done /\ probe.done2
  /\ probe.vec1 = [dim |-> 3, vals |-> <<0, 0, 0>>]
  /\ probe.vec2 = [dim |-> 3, vals |-> <<2, -1, 0>>]
  /\ probe.out = ZeroScore /\ probe.out2 = ZeroScore

\* C22: every vector a getEmbedding call returns has the dimension 1024 (so
\* it is not empty), whatever the text and whatever the provider answered.
FixedDimension ==
  \A k \in 1..Len(ev.embs) :
    ev.embs[k].tag = "return" => ev.embs[k].val.dim = Dim

\* C23: with overlap > 0, every chunk splitText returns after the first
\* begins with the last one or two sentences of the chunk before it,
\* followed by the sentence whose arrival made the code emit that chunk.
\* The sentences are the trimmed matches of the sentence pattern in the
\* text with its white space collapsed, and they are joined by one space.
OverlapSeeding ==
  LET sentences == matchSentences(trim(collapseSpaces(probe.text)))
      ts == [j \in 1..Len(sentences) |-> trim(sentences[j])]
      isPrefix(p, s) == Len(p) <= Len(s) /\ SubSeq(s, 1, Len(p)) = p
      isSuffix(p, s) == Len(p) <= Len(s) /\ SubSeq(s, Len(s) - Len(p) + 1, Len(s)) = p
      seeded(prev, cur) ==
        \E j \in 2..Len(ts), m \in 1..2 :
          /\ m < j
          /\ LET seed == join(SubSeq(ts, j - m, j - 1), <<Ch.sp>>)
             IN /\ isSuffix(seed, prev)
                /\ isPrefix(seed \o <<Ch.sp>> \o ts[j], cur)
  IN probe.done /\ probe.overlap > 0 =>
       \A k \in 2..Len(probe.out) : seeded(probe.out[k - 1], probe.out[k])

\* "a.b.c." with chunkSize 5: "a. b." is emitted when "c." arrives, and the
\* second chunk is both sentences of the first, then "c."
OverlapSeedingWitness ==
  /\ probe.done /\ probe.overlap > 0 /\ probe.chunkSize = 5
  /\ probe.text = <<97, Ch.dot, 98, Ch.dot, 97, Ch.dot>>
  /\ probe.out = << <<97, Ch.dot, Ch.sp, 98, Ch.dot>>,
                    <<97, Ch.dot, Ch.sp, 98, Ch.dot, Ch.sp, 97, Ch.dot>> >>

\* C24: simpleEmbedding(text) has 1024 entries; for the words w_0, w_1, ...
\* of the lower-cased text split at white space, entry i (i below the number
\* of words and below 1024) is abs(h(w_i) mod 100) / 100, where h starts at 0
\* and is h * 31 + charCode wrapped to a signed 32-bit integer after every
\* character; every other entry is 0; so every entry is in 0 .. 0.99.
\* Here h is computed on its four bytes, lowest first; entries are in
\* hundredths.
FallbackContents ==
  LET words == splitWords(toLowerCase(probe.text))
      n == IF Len(words) < Dim THEN Len(words) ELSE Dim
      times31(b, c) ==
        LET t1 == b[1] * 31 + c
            t2 == b[2] * 31 + (t1 \div 256)
            t3 == b[3] * 31 + (t2 \div 256)
            t4 == b[4] * 31 + (t3 \div 256)
        IN <<t1 % 256, t2 % 256, t3 % 256, t4 % 256>>
      h(w) ==
        LET after[k \in 0..Len(w)] ==
              IF k = 0 THEN <<0, 0, 0, 0>> ELSE times31(after[k - 1], w[k])
        IN after[Len(w)]
      \* 256 = 56, 256^2 = 36, 256^3 = 16 and 2^32 = 96 modulo 100
      unsignedMod(b) == (b[1] + 56 * b[2] + 36 * b[3] + 16 * b[4]) % 100
      absMod(b) == IF b[4] < 128 THEN unsignedMod(b)
                   ELSE (196 - unsignedMod(b)) % 100
  IN probe.done =>
       /\ probe.out.dim = Dim
       /\ Len(probe.out.vals) = n
       /\ \A i \in 1..n : /\ probe.out.vals[i] = absMod(h(words[i]))
                          /\ probe.out.vals[i] \in 0..99

\* the vector of a text of two words, one with a capital letter and a hash
\* below 0, whose entry is not 0
FallbackContentsWitness ==
  /\ probe.done
  /\ \E i \in 1..Len(probe.text) : probe.text[i] = 65
  /\ Len(probe.out.vals) = 2
  /\ LET words == splitWords(toLowerCase(probe.text))
     IN \E i \in 1..2 : wordHash(words[i])[1] >= 32768 /\ probe.out.vals[i] > 0

\* C25: for two vectors of different dimensions (an empty one included)
\* cosineSimilarity returns 0, in either revision: no dot product is taken
\* over mismatched vectors.
DimensionGuard ==
  LET mismatch == probe.vec1.dim # probe.vec2.dim
  IN /\ probe.done /\ mismatch => probe.out = ZeroScore
     /\ probe.done2 /\ mismatch => probe.out2 = ZeroScore

\* C26: in every state getStats reports as totalDocuments the number of
\* live documents, as totalChunks the number of stored chunks, one entry per
\* live document with the number of stored chunks of its name, and the
\* chunk counts of the entries add up to totalChunks.
StatsConsistency ==
  LET stats == getStats
      perDocument == [k \in 1..Len(stats.documents) |-> stats.documents[k].chunks]
  IN /\ stats.totalDocuments = Cardinality(docIds)
     /\ stats.totalChunks = Len(chunks)
     /\ {stats.documents[k].id : k \in 1..Len(stats.documents)} = docIds
     /\ Len(stats.documents) = Cardinality(docIds)
     /\ \A k \in 1..Len(stats.documents) :
          stats.documents[k].chunks =
            Cardinality({j \in 1..Len(chunks) : chunks[j].source = stats.documents[k].name})
     /\ sumTo(perDocument, Len(perDocument)) = stats.totalChunks

\* C27: every block of the string searchSimilar returns is the block of a
\* chunk the store holds when the call returns, with the score of that
\* chunk; a chunk that a deleteDocument removed while the embedding of the
\* query was pending is not returned, and a search that finds the store
\* emptied returns the empty string.
OnlyLiveChunks ==
  ev.kind = "return" /\ ev.op = "search" =>
    /\ \A j \in 1..Len(ev.rendered) :
         /\ ev.rendered[j].index \in 1..Len(chunks)
         /\ ev.embs # <<>>
         /\ ev.rendered[j].score = scoreChunk(ev.embs[1].val, chunks[ev.rendered[j].index])
    /\ Len(chunks) = 0 => ev.empty

\* a search returns blocks after a delete removed chunks during its wait
OnlyLiveChunksWitness ==
  /\ ev.kind = "return" /\ ev.op = "search"
  /\ ev.seen > Len(chunks)
  /\ Len(ev.rendered) > 0

\* C28: when an upload returns with success, the store holds a chunk for
\* every segment of its text that passed the length filter, whatever other
\* uploads and deletes ran in between.
IngestionComplete ==
  ev.kind = "return" /\ ev.op = "upload" /\ ev.outcome = "ok" =>
    \A i \in ev.segs :
      \E j \in 1..Len(chunks) : chunks[j].by = ev.call /\ chunks[j].seg = i

\* C29: whenever no chat call is in progress, the history of the session
\* holds at most 20 messages, after any chat calls, ended well or not.
ChatHistoryBound ==
  chat.pending = {} => Len(chat.history) <= HistoryLimit

\* C30: for a context searchSimilar rendered, extractSources returns the
\* source names of the rendered chunks, each once, in the order of their
\* first appearance.
SourceRoundTrip ==
  LET firsts == {k \in 1..Len(probe.chs) :
                   \A j \in 1..(k - 1) : probe.chs[j].source # probe.chs[k].source}
      order == SortedSeq(firsts)
      names == [i \in 1..Len(order) |-> probe.chs[order[i]].source]
  IN probe.done /\ probe.context # <<>> => probe.out = names

====
